---- MODULE Spec2Model ----
(***************************************************************************)
(* State-machine model of the two-image morphing tool (myscript.js and    *)
(* the page that hosts it): the two Triangulators and their point lists,   *)
(* the add/select/delete synchronisation between them, the drag gestures   *)
(* on landmark points, the image loaders that set the shared domain size,  *)
(* and the morph animation with its two output canvases.                   *)
(*                                                                         *)
(* Numbers.  Coordinates and sizes are JavaScript numbers and need not be  *)
(* whole: a drag position is stored as it comes, and clampSize multiplies  *)
(* by a shrink factor.  Every length in the model is an integer count of   *)
(* quarter pixels, so U(400) is 400 px and U(166) + 2 is 166.5 px.         *)
(* Indices are zero-based as in the source; At(s, i) reads a sequence at a *)
(* zero-based index.  Animation time is kept in milliseconds: the progress *)
(* t handed to the frame callback is elapsed/duration and is stored as its *)
(* numerator, so t = 1 is the value `duration' and 1 - t is                *)
(* duration - elapsed.                                                     *)
(***************************************************************************)
EXTENDS Integers, Sequences, FiniteSets, TLC

VARIABLES
    points,        \* points[m]: the point list of _state.tri<m>, m = 1, 2
    size,          \* the shared _size object [w, h] both Triangulators hold
    selectedIndex, \* _state.selectedIndex
    drag,          \* the gesture dragTracker is following, if any
    info,          \* info[k]: loader k's size information, NoInfo before its first load
    pending,       \* pending[k]: the image loader k is loading, NoInfo if none
    canvas,        \* canvas[k]: width and height (whole pixels) of loader k's canvas
    morphAnim,     \* the Vue instance's morphAnim: 0 for null, else an index into anims
    anims,         \* every animation ud.animate has returned, in creation order
    c1, c2,        \* what the output canvases #c1 and #c2 hold
    opacity,       \* c2.style.opacity: a progress numerator, or Unset
    drops,         \* how many images the user has dropped so far
    last,          \* the last handler that ran and whether it threw
    probe          \* the last call of getEdges or warpImage looked into, and its result

vars == <<points, size, selectedIndex, drag, info, pending, canvas,
          morphAnim, anims, c1, c2, opacity, drops, last, probe>>

-----------------------------------------------------------------------------
(* Bounds of the exploration.  Three specifications explore the same        *)
(* handlers: Spec is wide in the editing of the point lists, SpecAnim in   *)
(* the animation, SpecLoad in the image loads.                             *)

\* Spec: longest point list a click may extend
MaxPoints == 3
\* SpecAnim, SpecLoad: longest point list a click may extend
MaxPointsFew == 1
\* how many points of each preset list the initial state keeps
PresetLen == 1
\* SpecAnim: how many animations warp() may start in one behaviour
MaxAnims == 2
\* Spec, SpecLoad: how many animations warp() may start in one behaviour
MaxAnimsFew == 1
\* SpecAnim, SpecLoad: how many images the user may drop in one behaviour
MaxDrops == 1

-----------------------------------------------------------------------------
(* Numbers and small helpers *)

U(n) == 4 * n

Min(a, b) == IF a < b THEN a ELSE b
Max(a, b) == IF a > b THEN a ELSE b

\* Math.round on a quarter-pixel count: the nearest whole pixel, halves upward
MathRound(v) == 4 * ((v + 2) \div 4)

At(s, i) == s[i + 1]

InRange(s, i) == 0 <= i /\ i < Len(s)

\* splice had it dropped the element after i
Splice1Next(s, i) == SubSeq(s, 1, i + 1) \o SubSeq(s, i + 3, Len(s))

\* Array.prototype.splice(i, 1) for a valid index: drop the element at i
Splice1(s, i) == SubSeq(s, 1, i) \o SubSeq(s, i + 2, Len(s))

Filter(s, Keep(_)) == SelectSeq(s, Keep)

-----------------------------------------------------------------------------
(* Program constants *)

deleteThreshold == 20
_maxSize == 500
duration == 3000
sizeW0 == 400
sizeH0 == 400

\* the natural size of the two images the page starts with (both 329 x 459)
_srcA == [width |-> 329, height |-> 459]
_srcB == [width |-> 329, height |-> 459]

\* the preset landmarks of tri1 and tri2, in pixels
tri1Preset == << <<53,77>>, <<106,35>>, <<152,38>>, <<238,56>>, <<282,67>>,
    <<312,123>>, <<271,122>>, <<251,155>>, <<211,276>>, <<216,318>>,
    <<191,403>>, <<153,459>>, <<92,90>>, <<101,117>>, <<78,211>>, <<56,222>>,
    <<0,302>>, <<143,95>>, <<229,111>>, <<175,169>>, <<115,158>>, <<118,212>>,
    <<207,225>>, <<229,177>>, <<59,113>>, <<287,157>>, <<87,153>>, <<247,188>>,
    <<86,247>>, <<177,324>>, <<122,384>>, <<80,459>>, <<139,110>>, <<228,125>> >>

tri2Preset == << <<99,13>>, <<129,35>>, <<156,69>>, <<222,73>>, <<261,33>>,
    <<287,31>>, <<274,107>>, <<264,146>>, <<182,263>>, <<180,306>>,
    <<120,385>>, <<68,459>>, <<99,87>>, <<98,119>>, <<78,135>>, <<44,142>>,
    <<0,150>>, <<150,127>>, <<211,131>>, <<175,169>>, <<135,167>>, <<136,195>>,
    <<210,200>>, <<220,171>>, <<91,37>>, <<288,64>>, <<91,126>>, <<246,188>>,
    <<97,181>>, <<150,248>>, <<94,307>>, <<51,459>>, <<135,137>>, <<223,142>> >>

-----------------------------------------------------------------------------
(* Inputs *)

Meshes == {1, 2}

\* where a click may land, relative to the svg (quarter pixels): 10.25, 19.5
ClickPos == { <<U(10) + 1, U(20) - 2>> }

\* where the pointer may be during a drag, relative to the svg: 21 px above
\* the svg (past the delete threshold) and 20 px above it (at the threshold)
DragPos == { <<U(100), U(0 - 21)>>, <<U(100), U(0 - 20)>> }
\* SpecAnim, SpecLoad: past the threshold only
DragPosFew == { <<U(100), U(0 - 21)>> }

\* SpecMesh: right of the svg and 10 px above it, and 21, 20 and 19 px above it
DragPosMesh == { <<U(450), U(0 - 10)>>, <<U(100), U(0 - 21)>>,
                 <<U(100), U(0 - 20)>>, <<U(100), U(0 - 19)>> }

\* SpecMesh: onto the corner (w, 0), and past the threshold
DragPosCorner == { <<U(450), U(0 - 10)>>, <<U(100), U(0 - 21)>> }

\* the natural sizes of the images a user may drop
DropSizes == { [width |-> 1000, height |-> 333], [width |-> 200, height |-> 800] }
DropSizesFew == { [width |-> 1000, height |-> 333] }

\* natural sizes of images an ImageRenderer may hold, the boxes clampSize is
\* asked to fit them in, and the canvas sizes render is given, [w, h] in
\* quarter pixels (the last is what clampSize makes of 1000 x 333)
NatSizes ==
    { [width |-> 400, height |-> 594], [width |-> 594, height |-> 400],
      [width |-> 1, height |-> 531], [width |-> 3, height |-> 503],
      [width |-> 1000, height |-> 333], [width |-> 200, height |-> 800],
      [width |-> 329, height |-> 459], [width |-> 500, height |-> 500],
      [width |-> 640, height |-> 480] }
Boxes == { <<500, 500>>, <<300, 150>>, <<640, 480>> }
CanvSizes == { <<U(500), U(166) + 2>>, <<U(300), U(150)>> }

\* the time an animation has run when it calls frame, in ms
FrameTimes == {0, 4, 7, 750, 1000, 1500, 3000}

\* the time between two calls of the animation's frame callback, in ms
DtSet == {750, 1500}
DtSetFew == {1500}

\* the lerpT a call of warpImage may be given: none, 0, 1/2 and 1
LerpTs == {0 - 1, 0, 1500, 3000}

-----------------------------------------------------------------------------
(* Triangulator *)

NoDrag == [active |-> FALSE, mesh |-> 0, index |-> 0]
NoInfo == [width |-> 0, height |-> 0]
Unset == 0 - 1

createPoint(coord) ==
    [coord |-> <<MathRound(coord[1]), MathRound(coord[2])>>, toDelete |-> FALSE]

\* a point object of a preset list: written as a literal, not through createPoint
PresetPoint(px) == [coord |-> <<U(px[1]), U(px[2])>>, toDelete |-> FALSE]

\* the filter had it kept every point
KeepAll(p) == TRUE

NotToDelete(p) == ~p.toDelete

getEffectivePoints(pts, sz) ==
    << createPoint(<<0, 0>>), createPoint(<<sz.w, 0>>),
       createPoint(<<0, sz.h>>), createPoint(<<sz.w, sz.h>>) >>
    \o Filter(pts, NotToDelete)

\* addPoint had it pushed the coordinate as it came
addPointAsIs(pts, coord) == Append(pts, [coord |-> coord, toDelete |-> FALSE])

addPoint(pts, coord) == Append(pts, createPoint(coord))


\* the while loop of onAdded: copy source's points onto the end of target
RECURSIVE balanceLoop(_, _)
balanceLoop(sourcePoints, targetPoints) ==
    IF Len(targetPoints) < Len(sourcePoints)
    THEN balanceLoop(sourcePoints,
                     addPoint(targetPoints, At(sourcePoints, Len(targetPoints)).coord))
    ELSE targetPoints

\* onAdded had it always copied from tri1 to tri2, whichever list is longer
onAddedFromFirst(ps) == [ps EXCEPT ![2] = balanceLoop(ps[1], ps[2])]

\* onAdded: the list with more points is the source, the other the target
onAdded(ps) ==
    IF Len(ps[1]) > Len(ps[2])
    THEN [ps EXCEPT ![2] = balanceLoop(ps[1], ps[2])]
    ELSE [ps EXCEPT ![1] = balanceLoop(ps[2], ps[1])]

\* Vue's $delete on an array: splice(index, 1) when index is a valid array
\* index (a whole number >= 0); past the end, splice removes nothing
VueDelete(s, index) ==
    IF InRange(s, index) THEN Splice1(s, index) ELSE s

\* onDeleted had it deleted from tri1 only
onDeletedFirstOnly(ps, index) == [ps EXCEPT ![1] = VueDelete(@, index)]

onDeleted(ps, index) ==
    [m \in Meshes |-> VueDelete(ps[m], index)]

-----------------------------------------------------------------------------
(* Triangles and edges *)

\* getEffectivePoints().map(p => p.coord)
coordsOf(pts, sz) ==
    LET e == getEffectivePoints(pts, sz) IN [i \in 1..Len(e) |-> e[i].coord]

\* Delaunay.triangulate is a library the repository does not hold.  It is
\* given n coordinates and returns a flat array of indices, three for each
\* triangle.  The arrays looked at here are those an incremental build gives:
\* the rectangle of the four corners split along either diagonal, and each
\* further point k put into the first or the last of the triangles there are,
\* which it splits in three.
insertInto(T, j, k) ==
    SubSeq(T, 1, j - 1)
    \o << <<T[j][1], T[j][2], k>>, <<T[j][2], T[j][3], k>>, <<T[j][3], T[j][1], k>> >>
    \o SubSeq(T, j + 1, Len(T))

RECURSIVE Triples(_)
Triples(n) ==
    IF n <= 4
    THEN { << <<0, 1, 2>>, <<1, 3, 2>> >>, << <<0, 1, 3>>, <<0, 3, 2>> >> }
    ELSE UNION { { insertInto(T, j, n - 1) : j \in {1, Len(T)} } : T \in Triples(n - 1) }

flat(T) == [i \in 1..(3 * Len(T)) |-> T[((i - 1) \div 3) + 1][((i - 1) % 3) + 1]]

Delaunay(n) == { flat(T) : T \in Triples(n) }

\* fewer of them: each further point put into the first triangle
RECURSIVE TriplesFew(_)
TriplesFew(n) ==
    IF n <= 4 THEN Triples(4)
    ELSE { insertInto(T, 1, n - 1) : T \in TriplesFew(n - 1) }

DelaunayFew(n) == { flat(T) : T \in TriplesFew(n) }

\* What a Delaunay triangulation is, for a list of coordinates in which no
\* two points coincide and no four lie on one circle: the triangles whose
\* circumscribed circle has no other point in it or on it.  The test is the
\* sign of a determinant too wide for one number here: it is summed in two
\* parts, value = hi * wideBase^2 + lo with 0 <= lo < wideBase^2.
wideBase == 4096

\* u * v, for u and v below wideBase^2 in size
wideTimes(u, v) ==
    LET u1 == u \div wideBase
        u0 == u % wideBase
        v1 == v \div wideBase
        v0 == v % wideBase
        mid == u1 * v0 + u0 * v1
        low == (mid % wideBase) * wideBase + u0 * v0
    IN  [hi |-> u1 * v1 + mid \div wideBase + low \div (wideBase * wideBase),
         lo |-> low % (wideBase * wideBase)]

wideSum(a, b) ==
    [hi |-> a.hi + b.hi + (a.lo + b.lo) \div (wideBase * wideBase),
     lo |-> (a.lo + b.lo) % (wideBase * wideBase)]

wideSign(a) ==
    IF a.hi > 0 \/ (a.hi = 0 /\ a.lo > 0) THEN 1
    ELSE IF a.hi = 0 /\ a.lo = 0 THEN 0
    ELSE 0 - 1

\* twice the signed area of the triangle a, b, c
orient(a, b, c) ==
    (b[1] - a[1]) * (c[2] - a[2]) - (b[2] - a[2]) * (c[1] - a[1])

\* where d lies by the circle through a, b and c, which are not on one line:
\* 1 inside it, 0 on it, -1 outside it
inCircle(a, b, c, d) ==
    LET ax == a[1] - d[1]
        ay == a[2] - d[2]
        bx == b[1] - d[1]
        by == b[2] - d[2]
        cx == c[1] - d[1]
        cy == c[2] - d[2]
        det == wideSum(wideTimes(ax * ax + ay * ay, bx * cy - by * cx),
                 wideSum(wideTimes(bx * bx + by * by, cx * ay - cy * ax),
                         wideTimes(cx * cx + cy * cy, ax * by - ay * bx)))
    IN  wideSign(det) * (IF orient(a, b, c) > 0 THEN 1 ELSE 0 - 1)

\* the triangles of the Delaunay triangulation of coords, each as the set of
\* its three indices
delaunayTriangles(coords) ==
    LET n == Len(coords)
    IN  { t \in SUBSET (0..(n - 1)) :
            /\ Cardinality(t) = 3
            /\ LET i == CHOOSE x \in t : \A y \in t : x <= y
                   k == CHOOSE x \in t : \A y \in t : x >= y
                   j == CHOOSE x \in t : x # i /\ x # k
               IN  /\ orient(At(coords, i), At(coords, j), At(coords, k)) # 0
                   /\ \A d \in (0..(n - 1)) \ t :
                         inCircle(At(coords, i), At(coords, j), At(coords, k),
                                  At(coords, d)) < 0 }

\* no point on an edge of the domain, no two points in one place and no four
\* on one circle: the triangulation is the one set of 2n - 6 triangles
inGeneralPosition(coords) ==
    Cardinality(delaunayTriangles(coords)) = 2 * Len(coords) - 6

\* an array of triplets of indices into n coordinates
isTriangles(triangles, n) ==
    /\ Len(triangles) % 3 = 0
    /\ \A i \in 1..Len(triangles) : triangles[i] \in 0..(n - 1)

\* getTriangles(indexes), with `triangles' what Delaunay.triangulate(coords)
\* returned: the array cut in triplets, of indices or of the coordinates
\* they stand for
getTriangles(coords, triangles, indexes) ==
    [k \in 1..(Len(triangles) \div 3) |->
        LET a == triangles[3 * k - 2]
            b == triangles[3 * k - 1]
            c == triangles[3 * k]
        IN  IF indexes THEN <<a, b, c>>
            ELSE <<At(coords, a), At(coords, b), At(coords, c)>>]

\* String(v) of a number held in quarter pixels, as a sequence of character
\* codes: "-" is 45, "." 46, "0" to "9" 48 to 57
RECURSIVE digits(_)
digits(n) == IF n < 10 THEN <<48 + n>> ELSE Append(digits(n \div 10), 48 + (n % 10))

numStr(v) ==
    LET a == IF v < 0 THEN 0 - v ELSE v
        frac == CASE a % 4 = 0 -> << >>
                  [] a % 4 = 1 -> <<46, 50, 53>>
                  [] a % 4 = 2 -> <<46, 53>>
                  [] a % 4 = 3 -> <<46, 55, 53>>
    IN  (IF v < 0 THEN <<45>> ELSE << >>) \o digits(a \div 4) \o frac

\* String(p) of a coordinate [x, y]: the numbers joined with "," (44)
coordStr(p) == numStr(p[1]) \o <<44>> \o numStr(p[2])

\* s < t on strings: by character code, a proper prefix first
RECURSIVE strLess(_, _)
strLess(s, t) ==
    IF t = << >> THEN FALSE
    ELSE IF s = << >> THEN TRUE
    ELSE IF Head(s) # Head(t) THEN Head(s) < Head(t)
    ELSE strLess(Tail(s), Tail(t))

\* addIfNew's key had it always been p1 + '_' + p2
keyInOrder(p1, p2) == coordStr(p1) \o <<95>> \o coordStr(p2)

\* addIfNew's key: p1 < p2 compares the two arrays as strings; "_" is 95
key(p1, p2) ==
    IF strLess(coordStr(p1), coordStr(p2))
    THEN coordStr(p1) \o <<95>> \o coordStr(p2)
    ELSE coordStr(p2) \o <<95>> \o coordStr(p1)

\* addIfNew(p1, p2) on [drawn, edges]
addIfNew(acc, p1, p2) ==
    IF key(p1, p2) \in acc.drawn THEN acc
    ELSE [drawn |-> acc.drawn \cup {key(p1, p2)},
          edges |-> Append(acc.edges, <<p1, p2>>)]

\* the forEach of getEdges over the first k triangles
RECURSIVE edgesUpTo(_, _)
edgesUpTo(trisList, k) ==
    IF k = 0 THEN [drawn |-> {}, edges |-> << >>]
    ELSE LET t == trisList[k]
         IN  addIfNew(addIfNew(addIfNew(edgesUpTo(trisList, k - 1),
                                        t[1], t[2]), t[2], t[3]), t[3], t[1])

\* getEdges(), with `triangles' what Delaunay.triangulate returned
getEdges(coords, triangles) ==
    edgesUpTo(getTriangles(coords, triangles, FALSE),
              Len(getTriangles(coords, triangles, FALSE))).edges

-----------------------------------------------------------------------------
(* ImageRenderer *)

\* clampSize(maxW, maxH) for a loader that has size information: the natural
\* size and the box are whole pixels, the result is in quarter pixels.  The
\* images of DropSizes and the presets are such that the products are exact.
clampSize(inf, maxW, maxH) ==
    LET w == inf.width
        h == inf.height
        \* shrinkageW <= shrinkageH, i.e. maxW/w <= maxH/h
        byW == maxW * h <= maxH * w
        \* shrinkage < 1
        shrinks == IF byW THEN maxW < w ELSE maxH < h
    IN  IF ~shrinks THEN <<U(w), U(h)>>
        ELSE IF byW THEN <<(U(w) * maxW) \div w, (U(h) * maxW) \div w>>
        ELSE <<(U(w) * maxH) \div h, (U(h) * maxH) \div h>>

\* The same in the numbers JavaScript computes with.  A Number is an IEEE
\* double: a positive one is held as [e, m], m its 53 significant bits from
\* the leading 1 down and e the power of two of that leading bit; / and *
\* give the nearest double to the exact result, ties to the even mantissa.
mantissaBits == 53

RECURSIVE intBits(_)
intBits(n) == IF n < 2 THEN <<n>> ELSE Append(intBits(n \div 2), n % 2)

zeros(k) == [i \in 1..k |-> 0]

\* the bits plus one in the last place: [c, m], c the carry out of the top
incBits(b) ==
    IF \A i \in 1..Len(b) : b[i] = 1 THEN [c |-> 1, m |-> zeros(Len(b))]
    ELSE LET j == CHOOSE i \in 1..Len(b) :
                      b[i] = 0 /\ \A k \in (i + 1)..Len(b) : b[k] = 1
         IN  [c |-> 0, m |-> [i \in 1..Len(b) |->
                                 IF i < j THEN b[i] ELSE IF i = j THEN 1 ELSE 0]]

\* the double nearest to the number whose bits, from a leading 1 at 2^e
\* down, are `bits'
roundToDouble(bits, e) ==
    IF Len(bits) <= mantissaBits
    THEN [e |-> e, m |-> bits \o zeros(mantissaBits - Len(bits))]
    ELSE LET top == SubSeq(bits, 1, mantissaBits)
             half == bits[mantissaBits + 1] = 1
             more == \E i \in (mantissaBits + 2)..Len(bits) : bits[i] = 1
             up == half /\ (more \/ top[mantissaBits] = 1)
         IN  IF ~up THEN [e |-> e, m |-> top]
             ELSE IF incBits(top).c = 1
             THEN [e |-> e + 1, m |-> <<1>> \o zeros(mantissaBits - 1)]
             ELSE [e |-> e, m |-> incBits(top).m]

toDouble(n) == roundToDouble(intBits(n), Len(intBits(n)) - 1)

\* the k with y * 2^k <= x < y * 2^(k+1), for x >= y; and for x < y the k
\* with x * 2^k >= y > x * 2^(k-1)
RECURSIVE shiftDown(_, _)
shiftDown(x, y) == IF 2 * y <= x THEN 1 + shiftDown(x, 2 * y) ELSE 0

RECURSIVE shiftUp(_, _)
shiftUp(x, y) == IF x < y THEN 1 + shiftUp(2 * x, y) ELSE 0

RECURSIVE pow2(_)
pow2(k) == IF k = 0 THEN 1 ELSE 2 * pow2(k - 1)

\* the arithmetic below works on 18 bits of a mantissa at a time
limbBits == 18

\* the low `width' bits of q, highest first; and the number some bits spell
bitsOf(q, width) == [i \in 1..width |-> (q \div pow2(width - i)) % 2]

RECURSIVE toInt(_)
toInt(b) ==
    IF b = << >> THEN 0
    ELSE 2 * toInt(SubSeq(b, 1, Len(b) - 1)) + b[Len(b)]

\* a / b of two whole numbers >= 1, as a double: with y <= x < 2y the
\* quotient x / y has its leading 1 at 2^0; 54 bits of it by long division,
\* then one bit more that says whether anything is left
divide(a, b) ==
    LET e == IF a >= b THEN shiftDown(a, b) ELSE 0 - shiftUp(a, b)
        x == IF a >= b THEN a ELSE a * pow2(0 - e)
        y == IF a >= b THEN b * pow2(e) ELSE b
        q1 == (x * pow2(limbBits - 1)) \div y
        r1 == (x * pow2(limbBits - 1)) % y
        q2 == (r1 * pow2(limbBits)) \div y
        r2 == (r1 * pow2(limbBits)) % y
        q3 == (r2 * pow2(limbBits)) \div y
        r3 == (r2 * pow2(limbBits)) % y
    IN  roundToDouble(bitsOf(q1, limbBits) \o bitsOf(q2, limbBits)
                         \o bitsOf(q3, limbBits)
                         \o <<IF r3 # 0 THEN 1 ELSE 0>>, e)

\* n * f exactly, n a whole number >= 1: e, and bits from the leading 1
\* down, however many
timesExact(n, f) ==
    LET lo == toInt(SubSeq(f.m, Len(f.m) - limbBits + 1, Len(f.m))) * n
        mid == toInt(SubSeq(f.m, Len(f.m) - 2 * limbBits + 1, Len(f.m) - limbBits)) * n
                   + lo \div pow2(limbBits)
        hi == toInt(SubSeq(f.m, 1, Len(f.m) - 2 * limbBits)) * n
                   + mid \div pow2(limbBits)
        bits == intBits(hi) \o bitsOf(mid % pow2(limbBits), limbBits)
                            \o bitsOf(lo % pow2(limbBits), limbBits)
    IN  [e |-> f.e + (Len(bits) - Len(f.m)), m |-> bits]

\* n * f of a whole number n >= 1 and a double f, as a double
times(n, f) == roundToDouble(timesExact(n, f).m, timesExact(n, f).e)

\* a < b and a = b on numbers held as [e, m]
less(a, b) ==
    \/ a.e < b.e
    \/ /\ a.e = b.e
       /\ LET n == Max(Len(a.m), Len(b.m))
          IN  strLess(a.m \o zeros(n - Len(a.m)), b.m \o zeros(n - Len(b.m)))

same(a, b) == ~less(a, b) /\ ~less(b, a)

\* clampSize(maxW, maxH) on a loader with size information w, h, in doubles
clampSizeDouble(w, h, maxW, maxH) ==
    LET shrinkageW == divide(maxW, w)
        shrinkageH == divide(maxH, h)
        shrinkage == IF less(shrinkageH, shrinkageW) THEN shrinkageH ELSE shrinkageW
    IN  IF less(shrinkage, toDouble(1))
        THEN <<times(w, shrinkage), times(h, shrinkage)>>
        ELSE <<toDouble(w), toDouble(h)>>

\* canvas.width = v: the attribute is an unsigned long, the fraction is dropped
CanvasDim(v) == v \div 4

\* render(canvSize): what it leaves as the canvas's size
render(canvSize) == [width |-> CanvasDim(canvSize[1]), height |-> CanvasDim(canvSize[2])]

-----------------------------------------------------------------------------
(* warpImage and the animation *)

\* what warpImage(img, triSource, triTarget, canvas, lerpT) leaves on the canvas
warpImage(img, triSource, triTarget, lerpT) ==
    [img |-> img, source |-> triSource, target |-> triTarget, lerpT |-> lerpT]

\* the test had it been on lerpT alone, which a lerpT of 0 fails
suppliedIfTruthy(lerpT) == lerpT # Unset /\ lerpT # 0

\* lerpT || (lerpT === 0): a lerpT was passed; Unset stands for undefined
supplied(lerpT) == (lerpT # Unset /\ lerpT # 0) \/ lerpT = 0

\* Destination coordinates are kept as multiples of 1/duration of a quarter
\* pixel, so that co1 + t * (co2 - co1) is a whole number for every t
asDest(co) == [i \in 1..Len(co) |-> <<co[i][1] * duration, co[i][2] * duration>>]

\* um.lerp(co1, co2, t), t as its numerator over duration
lerp(co1, co2, t) ==
    [i \in 1..Len(co1) |->
        <<co1[i][1] * duration + t * (co2[i][1] - co1[i][1]),
          co1[i][2] * duration + t * (co2[i][2] - co1[i][2])>>]

\* um.lerp in the numbers JavaScript computes with.  A Number of either sign
\* is [sign, e, m]: sign 1, -1 or 0, and for a sign other than 0 the e and m
\* of its size as above.
zero == [sign |-> 0, e |-> 0, m |-> zeros(mantissaBits)]

signed(sign, f) == [sign |-> sign, e |-> f.e, m |-> f.m]

sizeOf(x) == [e |-> x.e, m |-> x.m]

negated(x) == [x EXCEPT !.sign = 0 - x.sign]

\* the bits without their leading zeros
stripZeros(b) ==
    IF \A i \in 1..Len(b) : b[i] = 0 THEN << >>
    ELSE SubSeq(b, CHOOSE i \in 1..Len(b) :
                      b[i] = 1 /\ \A k \in 1..(i - 1) : b[k] = 0, Len(b))

\* a + b + carry and a - b - borrow (for a >= b) of two numbers given by as
\* many bits each, limbBits bits at a time from the low end
RECURSIVE sumBits(_, _, _)
sumBits(a, b, carry) ==
    IF Len(a) = 0 THEN (IF carry = 0 THEN << >> ELSE <<1>>)
    ELSE LET k == Min(limbBits, Len(a))
             n == Len(a)
             low == toInt(SubSeq(a, n - k + 1, n)) + toInt(SubSeq(b, n - k + 1, n)) + carry
         IN  sumBits(SubSeq(a, 1, n - k), SubSeq(b, 1, n - k), low \div pow2(k))
                \o bitsOf(low % pow2(k), k)

RECURSIVE differenceBits(_, _, _)
differenceBits(a, b, borrow) ==
    IF Len(a) = 0 THEN << >>
    ELSE LET k == Min(limbBits, Len(a))
             n == Len(a)
             low == toInt(SubSeq(a, n - k + 1, n)) - toInt(SubSeq(b, n - k + 1, n)) - borrow
         IN  differenceBits(SubSeq(a, 1, n - k), SubSeq(b, 1, n - k),
                            IF low < 0 THEN 1 ELSE 0)
                \o bitsOf(IF low < 0 THEN low + pow2(k) ELSE low, k)

\* x + y of two Numbers: the exact sum, then rounded
plus(x, y) ==
    IF x.sign = 0 THEN y
    ELSE IF y.sign = 0 THEN x
    ELSE LET low == Min(x.e, y.e)
             xb == x.m \o zeros(x.e - low)
             yb == y.m \o zeros(y.e - low)
             n == Max(Len(xb), Len(yb))
             xs == zeros(n - Len(xb)) \o xb
             ys == zeros(n - Len(yb)) \o yb
             \* the exponent of the last of the n bits
             unit == low - (mantissaBits - 1)
         IN  IF x.sign = y.sign
             THEN LET bits == sumBits(xs, ys, 0)
                  IN  signed(x.sign, roundToDouble(bits, unit + Len(bits) - 1))
             ELSE IF xs = ys THEN zero
             ELSE LET xBigger == strLess(ys, xs)
                      bits == stripZeros(IF xBigger THEN differenceBits(xs, ys, 0)
                                         ELSE differenceBits(ys, xs, 0))
                  IN  signed(IF xBigger THEN x.sign ELSE y.sign,
                             roundToDouble(bits, unit + Len(bits) - 1))

\* a length of v quarter pixels as a Number of pixels, which it is exactly
pixels(v) ==
    IF v = 0 THEN zero
    ELSE LET f == toDouble(IF v < 0 THEN 0 - v ELSE v)
         IN  [sign |-> IF v < 0 THEN 0 - 1 ELSE 1, e |-> f.e - 2, m |-> f.m]

\* x * (v / 4) of a Number x and a length of v quarter pixels
timesPixels(x, v) ==
    IF v = 0 \/ x.sign = 0 THEN zero
    ELSE LET f == times(IF v < 0 THEN 0 - v ELSE v, sizeOf(x))
         IN  [sign |-> IF v < 0 THEN 0 - x.sign ELSE x.sign, e |-> f.e - 2, m |-> f.m]

\* the progress t = elapsed / duration the animation hands to frame, and
\* frame's 1 - t
progress(elapsed) ==
    IF elapsed = 0 THEN zero ELSE signed(1, divide(elapsed, duration))

oneMinus(t) == plus(signed(1, toDouble(1)), negated(t))

\* um.lerp(co1, co2, t) on one coordinate: a + t * (b - a), a and b in
\* quarter pixels and t a Number
lerpNumber(a, b, t) == plus(pixels(a), timesPixels(t, b - a))

\* um.lerp(co1, co2, t) on lists of coordinates
lerpNumbers(co1, co2, t) ==
    [i \in 1..Len(co1) |->
        <<lerpNumber(co1[i][1], co2[i][1], t), lerpNumber(co1[i][2], co2[i][2], t)>>]

\* warpImage: the co2 the triangles are drawn to
destCoords(co1, co2, lerpT) ==
    IF supplied(lerpT) THEN lerp(co1, co2, lerpT) ELSE asDest(co2)

\* warpImage had it drawn by the target's triangles
drawTrianglesOfTarget(tri1, tri2, co1, co2) ==
    [k \in 1..Len(tri2) |->
        [s |-> [j \in 1..3 |-> At(co1, tri2[k][j])],
         d |-> [j \in 1..3 |-> At(co2, tri2[k][j])]]]

\* warpImage: the drawTriangle calls of tri1.forEach, in order, each with its
\* three source corners and its three destination corners
drawTriangles(tri1, tri2, co1, co2) ==
    [k \in 1..Len(tri1) |->
        [s |-> [j \in 1..3 |-> At(co1, tri1[k][j])],
         d |-> [j \in 1..3 |-> At(co2, tri1[k][j])]]]

BlankPic == [img |-> 0, source |-> 0, target |-> 0, lerpT |-> Unset]

\* ud.animate(duration, frame, true): a running animation; skip is the
\* variable warp() declares for its frame callback
animate == [status |-> "running", elapsed |-> 0, skip |-> FALSE]

\* cancel() of an animation: it stops; on one that is not running it does
\* nothing.  No step of a cancelled animation runs again, so nothing reads
\* its clock or its frame callback's skip flag any more: they are dropped
cancel(a) ==
    IF a.status = "running"
    THEN [status |-> "cancelled", elapsed |-> 0, skip |-> FALSE]
    ELSE a

\* stopAnim had it cancelled nothing
stopAnimNothing(as, ma) == [anims |-> as, err |-> "none"]

\* stopAnim had it called cancel() without looking whether morphAnim is set
stopAnimNoGuard(as, ma) ==
    IF ma # 0
    THEN [anims |-> [as EXCEPT ![ma] = cancel(@)], err |-> "none"]
    ELSE [anims |-> as, err |-> "TypeError"]

\* stopAnim(): cancel morphAnim if there is one
stopAnim(as, ma) ==
    IF ma # 0
    THEN [anims |-> [as EXCEPT ![ma] = cancel(@)], err |-> "none"]
    ELSE [anims |-> as, err |-> "none"]

Running(as) == {a \in 1..Len(as) : as[a].status = "running"}


\* an output canvas nothing has been drawn on
Blank == [pic |-> BlankPic, by |-> 0]

\* no call of getEdges or warpImage has been looked into since the last handler
NoProbe == [op |-> "none"]

\* what a handler leaves in `last': its name, the mesh, loader or animation
\* it ran on, the point index it was given, what it did ("delete" or "keep"
\* for a drag end, "draw" or "skip" for an animation step) and whether it threw
Did(op, arg, index, effect, err) ==
    [op |-> op, arg |-> arg, index |-> index, effect |-> effect, err |-> err]

-----------------------------------------------------------------------------
(* The initial state: the page after the script has run and the main       *)
(* component is mounted; both preset images are still loading.             *)

Init ==
    /\ points = [m \in Meshes |->
                   [i \in 1..PresetLen |->
                      PresetPoint(IF m = 1 THEN tri1Preset[i] ELSE tri2Preset[i])]]
    /\ size = [w |-> U(sizeW0), h |-> U(sizeH0)]
    /\ selectedIndex = 0 - 1
    /\ drag = NoDrag
    /\ info = [k \in Meshes |-> NoInfo]
    /\ pending = [k \in Meshes |-> IF k = 1 THEN _srcA ELSE _srcB]
    /\ canvas = [k \in Meshes |-> [width |-> 300, height |-> 150]]
    /\ morphAnim = 0
    /\ anims = << >>
    /\ c1 = Blank
    /\ c2 = Blank
    /\ opacity = Unset
    /\ drops = 0
    /\ last = Did("init", 0, 0, "", "none")
    /\ probe = NoProbe

-----------------------------------------------------------------------------
(* Editing: the triangulator component's handlers and the main component's *)
(* onAdded / onSelected / onDeleted they emit to                           *)

\* onSelected had it stopped the animation and kept the selection it found
onSelectedStopOnly(index) ==
    /\ anims' = stopAnim(anims, morphAnim).anims
    /\ selectedIndex' = selectedIndex

\* onSelected(index)
onSelected(index) ==
    /\ anims' = stopAnim(anims, morphAnim).anims
    /\ selectedIndex' = index

\* a click on the svg of mesh m at coord: addPoint, then 'added', then select
ClickAdd(m, coord) ==
    /\ ~drag.active
    /\ LET added == [points EXCEPT ![m] = addPoint(@, coord)]
       IN  /\ points' = onAdded(added)
           /\ onSelected(Len(added[m]) - 1)
    /\ last' = Did("clickAdd", m, Len(points[m]), "", stopAnim(anims, morphAnim).err)
    /\ probe' = NoProbe
    /\ UNCHANGED <<size, drag, info, pending, canvas, morphAnim, c1, c2, opacity, drops>>

\* callbackDragStart on the node of point `index' of mesh m
DragStart(m, index) ==
    /\ ~drag.active
    /\ InRange(points[m], index)
    /\ drag' = [active |-> TRUE, mesh |-> m, index |-> index]
    /\ onSelected(index)
    /\ last' = Did("dragStart", m, index, "", stopAnim(anims, morphAnim).err)
    /\ probe' = NoProbe
    /\ UNCHANGED <<points, size, info, pending, canvas, morphAnim, c1, c2, opacity, drops>>

\* um.clamp(x, lo, hi)
clamp(x, lo, hi) == Min(Max(x, lo), hi)

\* the position the drag callback hands on: pos itself above the threshold,
\* pos clamped to the domain otherwise
normPos(pos, sz) ==
    IF pos[2] < 0 - U(deleteThreshold)
    THEN pos
    ELSE <<clamp(pos[1], 0, sz.w), clamp(pos[2], 0, sz.h)>>

\* the drag callback had it taken the mark off below the threshold
dragPointUnmarks(point, pos, sz) ==
    [coord |-> normPos(pos, sz), toDelete |-> pos[2] < 0 - U(deleteThreshold)]

\* the drag callback had it marked the point at the threshold too
dragPointAtThreshold(point, pos, sz) ==
    [coord |-> normPos(pos, sz),
     toDelete |-> IF pos[2] <= 0 - U(deleteThreshold) THEN TRUE ELSE point.toDelete]

\* the drag callback on a point: mark it above the threshold; the 'dragging'
\* event then stores normPos as the point's coord (drag-node's v-model)
dragPoint(point, pos, sz) ==
    [coord |-> normPos(pos, sz),
     toDelete |-> IF pos[2] < 0 - U(deleteThreshold) THEN TRUE ELSE point.toDelete]

\* the drag callback had the position gone to the point of that index in
\* both meshes
DragMoveBoth(pos) ==
    /\ drag.active
    /\ InRange(points[drag.mesh], drag.index)
    /\ points' = [k \in Meshes |->
                    [points[k] EXCEPT ![drag.index + 1] = dragPoint(@, pos, size)]]
    /\ last' = Did("dragMove", drag.mesh, drag.index, "", "none")
    /\ probe' = NoProbe
    /\ UNCHANGED <<size, selectedIndex, drag, info, pending, canvas,
                   morphAnim, anims, c1, c2, opacity, drops>>

\* the drag callback at pointer position pos.  When the list no longer has
\* the node's index (clear() ran during the drag) the point is undefined:
\* marking it throws, and the event goes to a node no list entry is bound to
DragMove(pos) ==
    /\ drag.active
    /\ LET m == drag.mesh
           i == drag.index
       IN  IF InRange(points[m], i)
           THEN /\ points' = [points EXCEPT ![m][i + 1] = dragPoint(@, pos, size)]
                /\ last' = Did("dragMove", m, i, "", "none")
           ELSE /\ points' = points
                /\ last' = Did("dragMove", m, i, "",
                               IF pos[2] < 0 - U(deleteThreshold)
                               THEN "TypeError" ELSE "none")
    /\ probe' = NoProbe
    /\ UNCHANGED <<size, selectedIndex, drag, info, pending, canvas,
                   morphAnim, anims, c1, c2, opacity, drops>>

\* callbackDragEnd had it deleted the point whether marked or not
DragEndAnyway ==
    /\ drag.active
    /\ InRange(points[drag.mesh], drag.index)
    /\ points' = onDeleted(points, drag.index)
    /\ last' = Did("dragEnd", drag.mesh, drag.index, "delete", "none")
    /\ drag' = NoDrag
    /\ probe' = NoProbe
    /\ UNCHANGED <<size, selectedIndex, info, pending, canvas,
                   morphAnim, anims, c1, c2, opacity, drops>>

\* callbackDragEnd: delete the point from both lists if it is marked
DragEnd ==
    /\ drag.active
    /\ LET m == drag.mesh
           i == drag.index
       IN  IF InRange(points[m], i)
           THEN /\ points' = IF At(points[m], i).toDelete
                             THEN onDeleted(points, i) ELSE points
                /\ last' = Did("dragEnd", m, i,
                               IF At(points[m], i).toDelete THEN "delete" ELSE "keep",
                               "none")
           ELSE /\ points' = points
                /\ last' = Did("dragEnd", m, i, "keep", "TypeError")
    /\ drag' = NoDrag
    /\ probe' = NoProbe
    /\ UNCHANGED <<size, selectedIndex, info, pending, canvas,
                   morphAnim, anims, c1, c2, opacity, drops>>

\* clear()
Clear ==
    /\ points' = [m \in Meshes |-> << >>]
    /\ last' = Did("clear", 0, 0, "", "none")
    /\ probe' = NoProbe
    /\ UNCHANGED <<size, selectedIndex, drag, info, pending, canvas,
                   morphAnim, anims, c1, c2, opacity, drops>>


-----------------------------------------------------------------------------
(* Images: onChange and the loaders' load event with onLoad                *)

\* onChange had it set the source and left the animation running
ImageChangeNoStop(k, nat) ==
    /\ drops' = drops + 1
    /\ pending' = [pending EXCEPT ![k] = nat]
    /\ last' = Did("imageChange", k, 0, "", "none")
    /\ probe' = NoProbe
    /\ UNCHANGED <<points, size, selectedIndex, drag, info, canvas,
                   morphAnim, anims, c1, c2, opacity>>

\* onChange(file) on container k: the loader starts loading the dropped
\* image (replacing a load still under way) and the animation is stopped
ImageChange(k, nat) ==
    /\ drops' = drops + 1
    /\ pending' = [pending EXCEPT ![k] = nat]
    /\ anims' = stopAnim(anims, morphAnim).anims
    /\ last' = Did("imageChange", k, 0, "", stopAnim(anims, morphAnim).err)
    /\ probe' = NoProbe
    /\ UNCHANGED <<points, size, selectedIndex, drag, info, canvas,
                   morphAnim, c1, c2, opacity>>

\* onLoad had it always taken the size of the loader whose image has loaded
onLoadSizeOfLoader(k, inf) == clampSize(inf[k], _maxSize, _maxSize)

\* onLoad(loader k), given the loaders' size information: the size it
\* computes and the canvases it renders
onLoadSize(k, inf) ==
    IF inf[1] # NoInfo /\ inf[2] # NoInfo
    THEN clampSize(inf[1], _maxSize, _maxSize)
    ELSE clampSize(inf[k], _maxSize, _maxSize)

onLoadCanvas(k, inf, cv) ==
    IF inf[1] # NoInfo /\ inf[2] # NoInfo
    THEN [j \in Meshes |-> render(onLoadSize(k, inf))]
    ELSE [cv EXCEPT ![k] = render(onLoadSize(k, inf))]

\* <canvas id="c1" :width="state.size.w" :height="state.size.h">: when the
\* size changes the re-render sets the canvas's width or height attribute,
\* which clears the canvas
resized(c, old, new) == IF new # old THEN Blank ELSE c

\* the load event of loader k's image: record its size, then onLoad; the
\* page is re-rendered for the new size
ImageLoaded(k) ==
    /\ pending[k] # NoInfo
    /\ LET inf == [info EXCEPT ![k] = pending[k]]
       IN  /\ info' = inf
           /\ canvas' = onLoadCanvas(k, inf, canvas)
           /\ size' = [w |-> onLoadSize(k, inf)[1], h |-> onLoadSize(k, inf)[2]]
    /\ c1' = resized(c1, size, size')
    /\ c2' = resized(c2, size, size')
    /\ pending' = [pending EXCEPT ![k] = NoInfo]
    /\ last' = Did("imageLoaded", k, 0, "", "none")
    /\ probe' = NoProbe
    /\ UNCHANGED <<points, selectedIndex, drag, morphAnim, anims, opacity, drops>>

-----------------------------------------------------------------------------
(* The morph animation: warp(), and one call of the animation's step       *)

\* warp() had it started the new animation without stopping the current one
WarpNoStop ==
    /\ anims' = Append(anims, animate)
    /\ morphAnim' = Len(anims) + 1
    /\ last' = Did("warp", Len(anims) + 1, 0, "", "none")
    /\ probe' = NoProbe
    /\ UNCHANGED <<points, size, selectedIndex, drag, info, pending, canvas,
                   c1, c2, opacity, drops>>

\* warp(): stop the current animation, start a new one and keep it
Warp ==
    /\ anims' = Append(stopAnim(anims, morphAnim).anims, animate)
    /\ morphAnim' = Len(anims) + 1
    /\ last' = Did("warp", Len(anims) + 1, 0, "", stopAnim(anims, morphAnim).err)
    /\ probe' = NoProbe
    /\ UNCHANGED <<points, size, selectedIndex, drag, info, pending, canvas,
                   c1, c2, opacity, drops>>

\* frame had it drawn on every call
frameDrawsAlways(skip) == TRUE

\* frame(t) of animation a, with the skip flag as the call found it:
\* whether this call draws
frameDraws(skip) == skip

\* frame had it drawn #c2 at t as well
framePic2SameT(t) == warpImage(2, 2, 1, t)

\* the pictures frame(t) draws on #c1 and #c2
framePic1(t) == warpImage(1, 1, 2, t)
framePic2(t) == warpImage(2, 2, 1, duration - t)

\* frame(t) called for animation a, whose closure holds skip: the flag it
\* leaves, and what it leaves on the canvases and in #c2's opacity
frame(a, t) ==
    LET draws == frameDraws(anims[a].skip)
    IN  [skip    |-> ~anims[a].skip,
         c1      |-> IF draws THEN [pic |-> framePic1(t), by |-> a] ELSE c1,
         c2      |-> IF draws THEN [pic |-> framePic2(t), by |-> a] ELSE c2,
         opacity |-> IF draws THEN t ELSE opacity,
         effect  |-> IF draws THEN "draw" ELSE "skip"]

\* one step of animation a, dt ms after the previous one: the progress is
\* elapsed/duration, at most 1; the step calls frame(t) and, once t has
\* reached 1, schedules no further step
Tick(a, dt) ==
    /\ a \in 1..Len(anims)
    /\ anims[a].status = "running"
    /\ LET t == Min(anims[a].elapsed + dt, duration)
           f == frame(a, t)
       IN  /\ anims' = [anims EXCEPT ![a] =
                          [status |-> IF t = duration THEN "done" ELSE "running",
                           elapsed |-> t,
                           skip |-> f.skip]]
           /\ c1' = f.c1
           /\ c2' = f.c2
           /\ opacity' = f.opacity
           /\ last' = Did("tick", a, 0, f.effect, "none")
    /\ probe' = NoProbe
    /\ UNCHANGED <<points, size, selectedIndex, drag, info, pending, canvas,
                   morphAnim, drops>>

-----------------------------------------------------------------------------
(* Calls of getEdges and warpImage on the meshes as they are, looked into  *)

\* mesh m's getEdges(), as the triangulator component's `edges' calls it
GetEdgesCall(m, triangles) ==
    /\ isTriangles(triangles, Len(coordsOf(points[m], size)))
    /\ probe' = [op |-> "getEdges", mesh |-> m,
                 coords |-> coordsOf(points[m], size),
                 tris |-> getTriangles(coordsOf(points[m], size), triangles, TRUE),
                 edges |-> getEdges(coordsOf(points[m], size), triangles)]
    /\ UNCHANGED <<points, size, selectedIndex, drag, info, pending, canvas,
                   morphAnim, anims, c1, c2, opacity, drops, last>>

\* warpImage(img, tri<src>, tri<the other>, canvas, lerpT) on meshes with as
\* many effective points each; triangles1 and triangles2 are what
\* Delaunay.triangulate returned for the source and for the target
WarpImageCall(src, lerpT, triangles1, triangles2) ==
    LET co1 == coordsOf(points[src], size)
        co2 == coordsOf(points[3 - src], size)
        tri1 == getTriangles(co1, triangles1, TRUE)
        tri2 == getTriangles(co2, triangles2, TRUE)
    IN  /\ Len(co1) = Len(co2)
        /\ isTriangles(triangles1, Len(co1))
        /\ isTriangles(triangles2, Len(co2))
        /\ probe' = [op |-> "warpImage", source |-> src, lerpT |-> lerpT,
                     co1 |-> co1, co2 |-> co2, tri1 |-> tri1, tri2 |-> tri2,
                     dest |-> destCoords(co1, co2, lerpT),
                     draws |-> drawTriangles(tri1, tri2, co1, destCoords(co1, co2, lerpT))]
        /\ UNCHANGED <<points, size, selectedIndex, drag, info, pending, canvas,
                       morphAnim, anims, c1, c2, opacity, drops, last>>

-----------------------------------------------------------------------------
(* A call of frame on the meshes as they are, looked into                   *)

\* frame(t) of an animation that has run for `elapsed' ms, on meshes with as
\* many effective points each: the destination coordinates its two
\* warpImage calls draw to, um.lerp(A, B, t) for #c1 and um.lerp(B, A, 1 - t)
\* for #c2
FrameCall(elapsed) ==
    LET A == coordsOf(points[1], size)
        B == coordsOf(points[2], size)
        t == progress(elapsed)
    IN  /\ Len(A) = Len(B)
        /\ probe' = [op |-> "frame", elapsed |-> elapsed, A |-> A, B |-> B,
                     dest1 |-> lerpNumbers(A, B, t),
                     dest2 |-> lerpNumbers(B, A, oneMinus(t))]
        /\ UNCHANGED <<points, size, selectedIndex, drag, info, pending, canvas,
                       morphAnim, anims, c1, c2, opacity, drops, last>>

-----------------------------------------------------------------------------
(* Calls of an ImageRenderer's clampSize and render, looked into            *)

\* no [w, h]: render called without a size, clampSize returning nothing
NoSize == << >>

\* the Error clampSize throws when the renderer has no size information
NotReady == "No size info yet"

\* clampSize(maxW, maxH) of an ImageRenderer whose info is inf: what it
\* throws, and what it returns
clampSizeThrows(inf) == IF inf = NoInfo THEN NotReady ELSE "none"

clampSizeReturns(inf, maxW, maxH) ==
    IF inf = NoInfo THEN NoSize
    ELSE clampSizeDouble(inf.width, inf.height, maxW, maxH)

\* clampSize assigns nothing: the canvases and the domain size stay
ClampSizeCall(inf, maxW, maxH) ==
    /\ probe' = [op |-> "clampSize", info |-> inf, maxW |-> maxW, maxH |-> maxH,
                 err |-> clampSizeThrows(inf),
                 clamped |-> clampSizeReturns(inf, maxW, maxH),
                 canvasBefore |-> canvas, sizeBefore |-> size]
    /\ UNCHANGED <<points, size, selectedIndex, drag, info, pending, canvas,
                   morphAnim, anims, c1, c2, opacity, drops, last>>

\* render(canvSize) on a renderer with canvas cv: the canvas
\* takes the size given, if one is given, and then clampSize is called
renderCanvas(cv, canvSize) ==
    IF canvSize = NoSize THEN cv ELSE render(canvSize)

\* loader k's render(canvSize), on the loader as it is
RenderCall(k, canvSize) ==
    /\ canvas' = [canvas EXCEPT ![k] = renderCanvas(canvas[k], canvSize)]
    /\ probe' = [op |-> "render", info |-> info[k], maxW |-> canvas'[k].width,
                 maxH |-> canvas'[k].height,
                 err |-> clampSizeThrows(info[k]),
                 clamped |-> clampSizeReturns(info[k], canvas'[k].width,
                                              canvas'[k].height),
                 canvasBefore |-> canvas, sizeBefore |-> size]
    /\ UNCHANGED <<points, size, selectedIndex, drag, info, pending,
                   morphAnim, anims, c1, c2, opacity, drops, last>>

-----------------------------------------------------------------------------

\* The handlers, with their inputs drawn from the given sets and the lists,
\* drops and animations kept within the given bounds

Editing(maxPoints, clicks, drags) ==
    \/ \E m \in Meshes, coord \in clicks :
          Len(points[m]) < maxPoints /\ ClickAdd(m, coord)
    \/ \E m \in Meshes, index \in 0..(maxPoints - 1) : DragStart(m, index)
    \/ \E pos \in drags : DragMove(pos)
    \/ DragEnd
    \/ Clear

Dropping(maxDrops, dropSizes) ==
    \E k \in Meshes, nat \in dropSizes : drops < maxDrops /\ ImageChange(k, nat)

Loading == \E k \in Meshes : ImageLoaded(k)

\* a look into getEdges or warpImage is taken on the state a handler left
Probing(lerps) ==
    \/ \E m \in Meshes :
          \E triangles \in Delaunay(Len(coordsOf(points[m], size))) :
             probe = NoProbe /\ GetEdgesCall(m, triangles)
    \/ \E src \in Meshes, lerpT \in lerps :
          \E triangles1 \in Delaunay(Len(coordsOf(points[src], size))),
             triangles2 \in DelaunayFew(Len(coordsOf(points[3 - src], size))) :
             probe = NoProbe /\ WarpImageCall(src, lerpT, triangles1, triangles2)

\* clampSize on a renderer as it is or holding an image of one of the sizes,
\* and render on a loader as it is
Sizing(natSizes, boxes, canvSizes) ==
    \/ \E inf \in natSizes \cup {info[k] : k \in Meshes}, box \in boxes :
          probe = NoProbe /\ ClampSizeCall(inf, box[1], box[2])
    \/ \E k \in Meshes, canvSize \in canvSizes \cup {NoSize} :
          probe = NoProbe /\ RenderCall(k, canvSize)

\* frame at one of the times, on the state a handler left
Framing(instants) ==
    \E elapsed \in instants : probe = NoProbe /\ FrameCall(elapsed)

Starting(maxAnims) == Len(anims) < maxAnims /\ Warp

Morphing(maxAnims, dts) ==
    \/ Starting(maxAnims)
    \/ \E a \in 1..maxAnims, dt \in dts : Tick(a, dt)

\* editing the meshes: the animations warp() starts take no step
Next ==
    \/ Editing(MaxPoints, ClickPos, DragPos)
    \/ Loading
    \/ Starting(MaxAnimsFew)

NextAnim ==
    \/ Editing(MaxPointsFew, ClickPos, DragPosFew)
    \/ Dropping(MaxDrops, DropSizesFew)
    \/ Loading
    \/ Morphing(MaxAnims, DtSet)

NextLoad ==
    \/ Editing(MaxPointsFew, ClickPos, DragPosFew)
    \/ Dropping(MaxDrops, DropSizes)
    \/ Loading
    \/ Morphing(MaxAnimsFew, DtSetFew)

\* the meshes under clicks and drags
NextDrag ==
    \/ Editing(MaxPointsFew, ClickPos, DragPosMesh)
    \/ Loading

\* the meshes in the domain the page starts with, and what getEdges and
\* warpImage make of them
NextMesh ==
    \/ Editing(MaxPointsFew, ClickPos, DragPosCorner)
    \/ Probing(LerpTs)

\* the image loaders, and what clampSize and render do on them
NextSize ==
    \/ Loading
    \/ Sizing(NatSizes, Boxes, CanvSizes)

\* the meshes in the domain the page starts with, and what a frame of the
\* animation makes of them
NextFrame ==
    \/ Editing(MaxPointsFew, ClickPos, DragPosCorner)
    \/ Framing(FrameTimes)

\* the animation's runs beside the editing and the loading of the two
\* images the page starts with; no image is dropped
NextRuns ==
    \/ Editing(MaxPointsFew, ClickPos, DragPosFew)
    \/ Loading
    \/ Morphing(MaxAnims, DtSet)

Spec == Init /\ [][Next]_vars

SpecAnim == Init /\ [][NextAnim]_vars

SpecRuns == Init /\ [][NextRuns]_vars

SpecDrag == Init /\ [][NextDrag]_vars

SpecMesh == Init /\ [][NextMesh]_vars

SpecLoad == Init /\ [][NextLoad]_vars

SpecSize == Init /\ [][NextSize]_vars

SpecFrame == Init /\ [][NextFrame]_vars


-----------------------------------------------------------------------------
(* Properties *)

\* r is Math.round of v: a whole pixel with r <= v + 1/2 < r + 1
IsRoundOf(r, v) == r % 4 = 0 /\ r <= v + 2 /\ v + 2 < r + 4

Other(m) == 3 - m

\* C1: in every reachable state the two point lists have the same length.
C1_EqualLengths == Len(points[1]) = Len(points[2])

\* a drag end has just deleted a point from lists that a click had extended
C1_Witness ==
    /\ last.op = "dragEnd" /\ last.effect = "delete"
    /\ Len(points[1]) = MaxPoints - 1
    /\ Len(points[2]) = MaxPoints - 1

\* C2: a click that adds a point to either mesh of a balanced pair gives the
\* other mesh a new last point at the same index with the same coordinate,
\* which is the click position rounded to whole pixels, and changes no point
\* either list already had.
C2_AddBalancing ==
    [][\A m \in Meshes, coord \in ClickPos :
         (ClickAdd(m, coord) /\ Len(points[1]) = Len(points[2])) =>
            LET n == Len(points[m])
                o == Other(m)
            IN  /\ Len(points'[m]) = n + 1
                /\ Len(points'[o]) = n + 1
                /\ points'[o][n + 1].coord = points'[m][n + 1].coord
                /\ IsRoundOf(points'[m][n + 1].coord[1], coord[1])
                /\ IsRoundOf(points'[m][n + 1].coord[2], coord[2])
                /\ ~points'[o][n + 1].toDelete
                /\ \A j \in 1..n : /\ points'[m][j] = points[m][j]
                                   /\ points'[o][j] = points[o][j]]_vars

\* a click on the svg of tri2 has just added a second point, and tri1 has its twin
C2_Witness ==
    /\ last.op = "clickAdd" /\ last.arg = 2 /\ last.index = 1
    /\ Len(points[1]) = 2 /\ Len(points[2]) = 2
    /\ points[1][2].coord = <<U(10), U(20)>>
    /\ points[2][2].coord = <<U(10), U(20)>>

\* C3: a drag end on a marked point with index i removes exactly position i
\* from both lists: the points before i stay where they are and every point
\* after i moves down by one, unchanged.
C3_DeleteBalancing ==
    [][(/\ DragEnd
        /\ InRange(points[drag.mesh], drag.index)
        /\ At(points[drag.mesh], drag.index).toDelete) =>
           \A m \in Meshes :
              /\ Len(points'[m]) = Len(points[m]) - 1
              /\ \A j \in 1..Len(points'[m]) :
                    points'[m][j] = IF j <= drag.index
                                    THEN points[m][j] ELSE points[m][j + 1]]_vars

\* the middle point of three has just been deleted: [P0, P1, P2] is now
\* [P0, P2], with the preset point still first in both lists
C3_Witness ==
    /\ last.op = "dragEnd" /\ last.effect = "delete" /\ last.index = 1
    /\ \A m \in Meshes :
          /\ Len(points[m]) = 2
          /\ points[m][1] = PresetPoint(IF m = 1 THEN tri1Preset[1] ELSE tri2Preset[1])
          /\ points[m][2] # points[m][1]


\* C4: for every mesh the effective points begin with the four corners of
\* the domain, (0,0), (w,0), (0,h), (w,h), whatever size the image loads
\* have left.
C4_Corners ==
    \A m \in Meshes :
       LET e == getEffectivePoints(points[m], size)
       IN  /\ e[1].coord = <<0, 0>>
           /\ e[2].coord = <<size.w, 0>>
           /\ e[3].coord = <<0, size.h>>
           /\ e[4].coord = <<size.w, size.h>>

\* the positions of the points of pts that are not marked for deletion
Unmarked(pts) == {i \in 1..Len(pts) : ~pts[i].toDelete}

\* the k-th smallest member of a set of positions
Kth(S, k) == CHOOSE j \in S : Cardinality({i \in S : i <= j}) = k

\* after its first four entries the effective list is the unmarked points of
\* the list, each once, in list order
C5_State ==
    \A m \in Meshes :
       LET pts == points[m]
           e == getEffectivePoints(pts, size)
       IN  /\ Len(e) = 4 + Cardinality(Unmarked(pts))
           /\ \A k \in 1..Cardinality(Unmarked(pts)) :
                 e[4 + k] = pts[Kth(Unmarked(pts), k)]
           /\ \A k \in 5..Len(e) : ~e[k].toDelete

\* C5: the effective points are four corner entries followed by exactly the
\* points that are not marked for deletion, in list order; a drag that marks
\* a point leaves it in the list (the length of neither list changes) and
\* takes it out of the effective list.
C5_EffectivePoints ==
    /\ []C5_State
    /\ [][\A pos \in DragPos :
            (DragMove(pos) /\ InRange(points[drag.mesh], drag.index)) =>
               LET m == drag.mesh
                   i == drag.index + 1
               IN  /\ \A k \in Meshes : Len(points'[k]) = Len(points[k])
                   /\ (pos[2] < 0 - U(deleteThreshold)) =>
                         /\ points'[m][i].toDelete
                         /\ Len(getEffectivePoints(points'[m], size'))
                               = 4 + Cardinality(Unmarked(points[m]) \ {i})]_vars

\* a drag has just marked the second of three points: it is still in the
\* list, and the effective list is the corners, the first and the third
C5_Witness ==
    /\ last.op = "dragMove" /\ last.arg = 1 /\ last.index = 1
    /\ Len(points[1]) = 3
    /\ Unmarked(points[1]) = {1, 3}
    /\ Len(getEffectivePoints(points[1], size)) = 6
    /\ getEffectivePoints(points[1], size)[6] = points[1][3]


\* the handlers that call stopAnim() on their way
StopOps == {"clickAdd", "dragStart", "imageChange", "warp"}

Drawn == <<c1, c2, opacity>>

\* C6: at most one animation is running, and it is the one morphAnim holds;
\* warp() leaves the animation it found cancelled, and whatever is drawn on
\* the output canvases from then on is drawn by the new animation.
C6_OneRunning ==
    /\ [](Running(anims) \subseteq {morphAnim})
    /\ [][last'.op = "tick" => /\ last'.arg = morphAnim'
                               /\ morphAnim' = morphAnim
                               /\ anims[morphAnim].status = "running"]_vars
    /\ [][(c1' # c1 /\ c1' # Blank) => c1'.by = morphAnim']_vars
    /\ [][(c2' # c2 /\ c2' # Blank) => c2'.by = morphAnim']_vars
    /\ [][morphAnim' # morphAnim =>
             /\ Running(anims') = {morphAnim'}
             /\ \A a \in 1..Len(anims) : anims'[a].status # "running"]_vars

\* warp() has just been called while the first animation, which had drawn a
\* frame, was running (nothing else has stopped it: no point was ever
\* selected, no image dropped): the first is cancelled, the second runs
C6_Witness ==
    /\ last.op = "warp" /\ morphAnim = 2
    /\ selectedIndex = 0 - 1 /\ drops = 0
    /\ c1.by = 1
    /\ anims[1].status = "cancelled"
    /\ anims[2].status = "running"

\* C7: the step with which an animation that warp() started reaches the end
\* of its duration draws the frame of t = 1: #c1 the warp at 1, #c2 the warp
\* at 0, opacity 1.
C7_FinalFrame ==
    [][\A a \in 1..Len(anims) :
          (anims[a].status = "running" /\ anims'[a].status = "done") =>
             /\ c1' = [pic |-> warpImage(1, 1, 2, duration), by |-> a]
             /\ c2' = [pic |-> warpImage(2, 2, 1, 0), by |-> a]
             /\ opacity' = duration]_vars

\* C8 as stated: while the animation morphAnim holds is cancelled and no
\* warp() starts another, no step changes the output canvases or the opacity.
C8_NothingChanges ==
    [][(/\ morphAnim # 0
        /\ anims[morphAnim].status = "cancelled"
        /\ morphAnim' = morphAnim) => Drawn' = Drawn]_vars

\* C8, amended: once stopAnim() has run nothing is running, and until the
\* next warp() nothing runs, the opacity stays, and each output canvas stays
\* as the last frame left it unless an image load changes the size, which
\* clears both.
C8_CancelledStays ==
    /\ [](last.op \in StopOps \ {"warp"} => Running(anims) = {})
    /\ [][(Running(anims) = {} /\ morphAnim' = morphAnim) =>
             /\ Running(anims') = {}
             /\ opacity' = opacity
             /\ IF last'.op = "imageLoaded" /\ size' # size
                THEN c1' = Blank /\ c2' = Blank
                ELSE c1' = c1 /\ c2' = c2]_vars

\* an animation was stopped by a drag's start after it had drawn the frame
\* of t = 1/2; the drag has ended since and
\* the frame is still there
C8_Witness ==
    /\ last.op = "dragEnd"
    /\ morphAnim = 1 /\ anims[1].status = "cancelled"
    /\ c1 = [pic |-> framePic1(1500), by |-> 1]
    /\ c2 = [pic |-> framePic2(1500), by |-> 1]
    /\ opacity = 1500

\* C9: stopAnim() throws nothing; a second call changes nothing the first
\* has left; and when no animation is running (none was ever started, or the
\* last one has ended or was stopped) a handler's call of it leaves the
\* animations and the output canvases as they are.
C9_StopAnimIdempotent ==
    /\ [](LET once == stopAnim(anims, morphAnim)
              twice == stopAnim(once.anims, morphAnim)
          IN  /\ once.err = "none"
              /\ twice = once
              /\ Running(once.anims) = {})
    /\ [](last.op \in StopOps => last.err = "none")
    /\ [][(last'.op \in StopOps \ {"warp"} /\ Running(anims) = {}) =>
             /\ anims' = anims
             /\ morphAnim' = morphAnim
             /\ Drawn' = Drawn]_vars

\* an image has just been dropped, which calls stopAnim(), after the only
\* animation had run to its end; its last frame is on the canvases
C9_Witness ==
    /\ last.op = "imageChange" /\ last.err = "none"
    /\ morphAnim = 1 /\ Len(anims) = 1
    /\ anims[1].status = "done"
    /\ c1.by = 1 /\ opacity = duration

\* the output canvases and the opacity are of one frame: both canvases
\* empty, or #c1 the warp tri1 -> tri2 at t, #c2 the warp tri2 -> tri1 at 1 - t and
\* the opacity t, drawn by the same call
C10_State ==
    \/ c1 = Blank /\ c2 = Blank
    \/ /\ opacity \in 0..duration
       /\ c1.by = c2.by /\ c1.by \in 1..Len(anims)
       /\ c1.pic = [img |-> 1, source |-> 1, target |-> 2, lerpT |-> opacity]
       /\ c2.pic = [img |-> 2, source |-> 2, target |-> 1, lerpT |-> duration - opacity]

\* C10: after every call of frame the two canvases and the opacity belong to
\* the same frame, and no step draws one canvas without the other.
C10_SameFrame ==
    /\ []C10_State
    /\ [][(c1' # c1) <=> (c2' # c2)]_vars

\* a call of frame has just drawn the frame of t = 3/4
C10_Witness ==
    /\ last.op = "tick" /\ last.effect = "draw"
    /\ opacity = 2250
    /\ c1.pic.lerpT = 2250
    /\ c2.pic.lerpT = 750


\* C11: warpImage on meshes with as many effective points each: given
\* lerpT = 0 it draws to the source mesh's own effective coordinates at every
\* index (a lerpT of 0 counts as given), given lerpT = 1 to the target's.
C11_LerpBoundary ==
    probe.op = "warpImage" =>
       /\ probe.lerpT = 0 =>
             \A i \in 1..Len(probe.co1) :
                /\ probe.dest[i][1] = probe.co1[i][1] * duration
                /\ probe.dest[i][2] = probe.co1[i][2] * duration
       /\ probe.lerpT = duration =>
             \A i \in 1..Len(probe.co1) :
                /\ probe.dest[i][1] = probe.co2[i][1] * duration
                /\ probe.dest[i][2] = probe.co2[i][2] * duration
       /\ probe.lerpT \in {0, duration} =>
             \A k \in 1..Len(probe.draws), j \in 1..3 :
                probe.draws[k].d[j] = probe.dest[probe.tri1[k][j] + 1]

\* warpImage was given lerpT = 0 on meshes whose fifth effective points
\* differ, and drew to the source's coordinates
C11_Witness ==
    /\ probe.op = "warpImage" /\ probe.lerpT = 0
    /\ Len(probe.co1) = 5 /\ Len(probe.co2) = 5
    /\ probe.co1[5] # probe.co2[5]
    /\ probe.dest[5] = <<probe.co1[5][1] * duration, probe.co1[5][2] * duration>>

\* C12: warpImage draws one triangle for each triangle (a, b, c) of the
\* source mesh's triangulation, in its order, from the source's coordinates
\* at a, b, c to the destination coordinates at the same a, b, c; the target
\* mesh's triangulation does not come into it.
C12_SourceTopology ==
    probe.op = "warpImage" =>
       /\ Len(probe.draws) = Len(probe.tri1)
       /\ \A k \in 1..Len(probe.tri1) :
             LET a == probe.tri1[k][1] + 1
                 b == probe.tri1[k][2] + 1
                 c == probe.tri1[k][3] + 1
             IN  /\ probe.draws[k].s = <<probe.co1[a], probe.co1[b], probe.co1[c]>>
                 /\ probe.draws[k].d = <<probe.dest[a], probe.dest[b], probe.dest[c]>>

\* warpImage was called at t = 1/2 on meshes the library triangulates
\* differently: the source in four triangles, the target in another four
C12_Witness ==
    /\ probe.op = "warpImage" /\ probe.lerpT = 1500
    /\ Len(probe.tri1) = 4 /\ Len(probe.tri2) = 4
    /\ probe.tri1 # probe.tri2
    /\ probe.co1 # probe.co2


\* v held to the range lo..hi
Within(v, lo, hi) == IF v < lo THEN lo ELSE IF v > hi THEN hi ELSE v

\* C13: a drag move to (x, y) with y >= -20 stores (clamp(x,0,w),
\* clamp(y,0,h)) and does not mark the point; with y < -20 it marks the point
\* and stores (x, y) unclamped.
C13_MoveThreshold ==
    [][\A pos \in DragPosMesh :
          (DragMove(pos) /\ InRange(points[drag.mesh], drag.index)) =>
             LET old == At(points[drag.mesh], drag.index)
                 new == At(points'[drag.mesh], drag.index)
             IN  IF pos[2] >= 0 - U(20)
                 THEN /\ new.coord = <<Within(pos[1], 0, size.w), Within(pos[2], 0, size.h)>>
                      /\ new.toDelete = old.toDelete
                 ELSE /\ new.toDelete
                      /\ new.coord = pos]_vars

\* in the 400 x 400 domain a point of tri1 has just been dragged to
\* (450, -10): it is at (400, 0) and not marked
C13_Witness ==
    /\ last.op = "dragMove" /\ last.arg = 1 /\ last.index = 0
    /\ size = [w |-> U(400), h |-> U(400)]
    /\ Len(points[1]) = 1
    /\ points[1][1] = [coord |-> <<U(400), 0>>, toDelete |-> FALSE]

\* C14: when a drag ends on point i: if the point is marked, position i is
\* removed from both lists, though only the dragged mesh's point carries the
\* mark; if it is not marked, neither list changes.
C14_DragEndDelete ==
    [][(DragEnd /\ InRange(points[drag.mesh], drag.index)) =>
          LET i == drag.index + 1
          IN  IF points[drag.mesh][i].toDelete
              THEN /\ ~points[Other(drag.mesh)][i].toDelete
                   /\ \A m \in Meshes :
                         /\ Len(points'[m]) = Len(points[m]) - 1
                         /\ \A j \in 1..Len(points'[m]) :
                               points'[m][j] = points[m][IF j < i THEN j ELSE j + 1]
              ELSE points' = points]_vars

\* a drag on tri2's only point has ended with the point marked: both lists
\* are empty
C14_Witness ==
    /\ last.op = "dragEnd" /\ last.effect = "delete"
    /\ last.arg = 2 /\ last.index = 0
    /\ points[1] = << >> /\ points[2] = << >>

\* more coordinates to round: halves and quarters either side of zero
RoundCoords == ClickPos \cup { <<0 - 2, 0 - 3>>, <<U(7) + 2, U(0 - 7) - 2>> }

\* C16: addPoint(coord) appends one point at the end of the list, each
\* coordinate rounded to the nearest whole number and not marked; the points
\* the list had keep their places, coordinates and marks.
C16_AddPoint ==
    /\ [](\A m \in Meshes, coord \in RoundCoords :
            LET pts == points[m]
                new == addPoint(pts, coord)
            IN  /\ Len(new) = Len(pts) + 1
                /\ SubSeq(new, 1, Len(pts)) = pts
                /\ IsRoundOf(new[Len(new)].coord[1], coord[1])
                /\ IsRoundOf(new[Len(new)].coord[2], coord[2])
                /\ ~new[Len(new)].toDelete)
    /\ [][\A m \in Meshes, coord \in ClickPos :
            ClickAdd(m, coord) =>
               /\ Len(points'[m]) = Len(points[m]) + 1
               /\ SubSeq(points'[m], 1, Len(points[m])) = points[m]
               /\ IsRoundOf(points'[m][Len(points'[m])].coord[1], coord[1])
               /\ IsRoundOf(points'[m][Len(points'[m])].coord[2], coord[2])]_vars

\* a click at (10.25, 19.5) on the emptied tri1 has just added its only
\* point, at (10, 20)
C16_Witness ==
    /\ last.op = "clickAdd" /\ last.arg = 1 /\ last.index = 0
    /\ points[1] = << [coord |-> <<U(10), U(20)>>, toDelete |-> FALSE] >>


\* the sides of the triangles by vertex index, and by vertex coordinate
IndexSides(tris) ==
    UNION { { {t[1], t[2]}, {t[2], t[3]}, {t[3], t[1]} } :
            t \in { tris[k] : k \in 1..Len(tris) } }

CoordSides(tris, coords) ==
    { { At(coords, i) : i \in side } : side \in IndexSides(tris) }

EdgeSet(edges) == { {edges[k][1], edges[k][2]} : k \in 1..Len(edges) }

C17_IndexMisuse ==
    [][(/\ drag.active
        /\ ~InRange(points[drag.mesh], drag.index)
        /\ last'.op \in {"dragMove", "dragEnd"}) =>
           /\ last'.err # "none"
           /\ points' = points]_vars

\* the numbers of effective points of the two meshes
EffectiveCounts == [m \in Meshes |-> Len(getEffectivePoints(points[m], size))]

\* C18: warp() called while the meshes have different numbers of points to
\* morph starts no animation, and no frame is drawn over such meshes.
C18_RefuseUnequal ==
    [][(EffectiveCounts[1] # EffectiveCounts[2]) =>
          /\ last'.op = "warp" => Running(anims') = {}
          /\ last'.op = "tick" => last'.effect # "draw"]_vars

\* C19: clampSize, and render which calls it, on an ImageRenderer whose
\* image has not completed loading raise the not-ready error and change
\* neither the canvas size nor the domain size.
C19_NotReady ==
    (probe.op \in {"clampSize", "render"} /\ probe.info = NoInfo) =>
        /\ probe.err = NotReady
        /\ canvas = probe.canvasBefore
        /\ size = probe.sizeBefore

\* C20: clampSize(maxW, maxH) is shrink-only and aspect-preserving: the
\* result (w', h') for a natural size (w, h) has w' <= w, h' <= h,
\* w' <= maxW, h' <= maxH and w' * h = h' * w; it is exactly (w, h) when
\* the image fits the box, and has w' = maxW or h' = maxH when it does not.
C20_ShrinkOnly ==
    (probe.op = "clampSize" /\ probe.err = "none") =>
        LET w == probe.info.width
            h == probe.info.height
            wc == probe.clamped[1]
            hc == probe.clamped[2]
        IN  /\ ~less(toDouble(w), wc)
            /\ ~less(toDouble(h), hc)
            /\ ~less(toDouble(probe.maxW), wc)
            /\ ~less(toDouble(probe.maxH), hc)
            /\ same(timesExact(h, wc), timesExact(w, hc))
            /\ (w <= probe.maxW /\ h <= probe.maxH) =>
                   (wc = toDouble(w) /\ hc = toDouble(h))
            /\ (w > probe.maxW \/ h > probe.maxH) =>
                   (wc = toDouble(probe.maxW) \/ hc = toDouble(probe.maxH))

\* C21: after a click has added a point to either mesh and the pair is
\* balanced again, selectedIndex is the index of the new point, which is the
\* last index of both lists; after a drag has started on point i,
\* selectedIndex is i.
C21_SelectionFollows ==
    /\ [][\A m \in Meshes, coord \in ClickPos :
             ClickAdd(m, coord) =>
                /\ selectedIndex' = Len(points[m])
                /\ selectedIndex' = Len(points'[1]) - 1
                /\ selectedIndex' = Len(points'[2]) - 1]_vars
    /\ [][\A m \in Meshes, index \in 0..(MaxPoints - 1) :
             DragStart(m, index) => selectedIndex' = index]_vars

\* a drag had selected the first point and ended; a click on tri2 has just
\* added the third point, and the selection is on it
C21_Witness ==
    /\ last.op = "clickAdd" /\ last.arg = 2
    /\ Len(points[1]) = 3 /\ Len(points[2]) = 3
    /\ selectedIndex = 2
    /\ ~drag.active

\* C22: within one animation run frame draws on every other call: each call
\* turns the skip flag over; the call that finds it set draws both output
\* canvases, the call that finds it clear draws nothing and leaves all but
\* the flag (and the animation's own clock) as it was, so that of two calls
\* in a row one draws and one does not; no other handler touches the flag of
\* a running animation; and warp() starts each run with the flag clear.
C22_FrameThrottle ==
    /\ [][\A a \in 1..MaxAnims, dt \in DtSet :
             Tick(a, dt) =>
                /\ anims'[a].skip = ~anims[a].skip
                /\ \A b \in 1..Len(anims) : b # a => anims'[b] = anims[b]
                /\ IF anims[a].skip
                   THEN /\ last'.effect = "draw"
                        /\ c1' = [pic |-> framePic1(anims'[a].elapsed), by |-> a]
                        /\ c2' = [pic |-> framePic2(anims'[a].elapsed), by |-> a]
                        /\ opacity' = anims'[a].elapsed
                   ELSE /\ last'.effect = "skip"
                        /\ UNCHANGED <<points, size, selectedIndex, drag, info,
                                       pending, canvas, morphAnim, c1, c2,
                                       opacity, drops>>]_vars
    /\ [][(last.op = "tick" /\ last'.op = "tick" /\ last'.arg = last.arg) =>
             last'.effect # last.effect]_vars
    /\ [][last'.op # "tick" =>
             \A a \in Running(anims) \cap Running(anims') :
                anims'[a].skip = anims[a].skip]_vars
    /\ [][last'.op = "warp" =>
             /\ anims'[morphAnim'].skip = FALSE
             /\ anims'[morphAnim'].elapsed = 0]_vars

\* the second run's second call has just drawn, its first having drawn
\* nothing: the first run was stopped by warp() after its own second call
C22_Witness ==
    /\ last.op = "tick" /\ last.arg = 2 /\ last.effect = "draw"
    /\ Len(anims) = 2
    /\ anims[1].status = "cancelled"
    /\ anims[2].status = "running" /\ ~anims[2].skip
    /\ c1.by = 2 /\ c2.by = 2

\* C23: for every reachable mesh pair the triangle at position i of tri1's
\* list of index triples is the same index triple as the triangle at position
\* i of tri2's, each mesh being triangulated on its own effective points.
\* In whatever order the library lists the triangles this needs the two
\* lists to hold the same triangles, which is what is checked, on the pairs
\* whose triangulations geometry leaves no choice in.
C23_AlignedTopology ==
    LET co1 == coordsOf(points[1], size)
        co2 == coordsOf(points[2], size)
    IN  (/\ Len(co1) = Len(co2)
         /\ inGeneralPosition(co1)
         /\ inGeneralPosition(co2)) =>
            delaunayTriangles(co1) = delaunayTriangles(co2)

\* C24: a drag move on point i of one mesh replaces that point's coordinate,
\* and may set its delete mark, and nothing else: the other mesh's list,
\* every other point of the dragged mesh, the lengths and the order of both
\* lists and the domain size stay as they were.
C24_DragMoveFrame ==
    [][\A pos \in DragPos :
          (DragMove(pos) /\ InRange(points[drag.mesh], drag.index)) =>
             LET m == drag.mesh
                 i == drag.index + 1
             IN  /\ points'[Other(m)] = points[Other(m)]
                 /\ Len(points'[m]) = Len(points[m])
                 /\ \A j \in 1..Len(points[m]) :
                       j # i => points'[m][j] = points[m][j]
                 /\ points'[m][i].coord = normPos(pos, size)
                 /\ points[m][i].toDelete => points'[m][i].toDelete
                 /\ size' = size]_vars

\* the second of tri1's three points has just been dragged onto the upper
\* edge; tri2's second point is where the click put it
C24_Witness ==
    /\ last.op = "dragMove" /\ last.arg = 1 /\ last.index = 1
    /\ Len(points[1]) = 3 /\ Len(points[2]) = 3
    /\ points[1][2].coord = <<U(100), 0>>
    /\ points[2][2].coord = <<U(10), U(20)>>
    /\ points[1][3] = points[2][3]

\* C25: in whatever order the two images' loads complete, reloads after an
\* image change included: once both images have size information both
\* canvases have been rendered with one size, image 1's clamped size, and
\* the domain size of both meshes is that size; while only one image has
\* loaded, the domain size is that image's clamped size.
C25_LoadOrder ==
    LET clamped(k) == clampSize(info[k], _maxSize, _maxSize)
        loaded == {k \in Meshes : info[k] # NoInfo}
    IN  /\ loaded = Meshes =>
              /\ canvas[1] = render(clamped(1))
              /\ canvas[2] = render(clamped(1))
              /\ size = [w |-> clamped(1)[1], h |-> clamped(1)[2]]
        /\ \A k \in Meshes :
              loaded = {k} =>
                 /\ canvas[k] = render(clamped(k))
                 /\ size = [w |-> clamped(k)[1], h |-> clamped(k)[2]]

\* image 2 was replaced by a 1000 x 333 image after both presets had loaded
\* (image 2's first): its load has just completed, and the size is still
\* image 1's
C25_Witness ==
    /\ last.op = "imageLoaded" /\ last.arg = 2
    /\ info[1] = _srcA
    /\ info[2] = [width |-> 1000, height |-> 333]
    /\ size = [w |-> U(329), h |-> U(459)]
    /\ canvas[2] = [width |-> 329, height |-> 459]

\* C26: in every frame the two output canvases are warped to the same
\* destination geometry: for every effective point index k and every t the
\* destination coordinate for #c1, lerp(A[k], B[k], t), equals the one for
\* #c2, lerp(B[k], A[k], 1 - t), A and B being the effective coordinates of
\* tri1 and tri2.
C26_SameDestination ==
    probe.op = "frame" => probe.dest1 = probe.dest2

\* C27: the delete mark is sticky within a drag: once a drag move has marked
\* the point no later move of the drag takes the mark off, not even one back
\* inside the domain, so the drag end removes that index from both meshes;
\* and no point carries a mark once the drag that set it has ended.
C27_StickyMark ==
    /\ [][\A pos \in DragPosMesh :
             (/\ DragMove(pos)
              /\ InRange(points[drag.mesh], drag.index)
              /\ At(points[drag.mesh], drag.index).toDelete) =>
                 At(points'[drag.mesh], drag.index).toDelete]_vars
    /\ [][(/\ DragEnd
           /\ InRange(points[drag.mesh], drag.index)
           /\ At(points[drag.mesh], drag.index).toDelete) =>
              \A m \in Meshes :
                 points'[m] = Splice1(points[m], drag.index)]_vars
    /\ [](\A m \in Meshes : \A j \in 1..Len(points[m]) :
             points[m][j].toDelete =>
                (drag.active /\ drag.mesh = m /\ drag.index = j - 1))

\* the point was dragged past the threshold and then back onto the upper
\* edge of the domain: it is inside again and still marked
C27_Witness ==
    /\ last.op = "dragMove" /\ drag.active /\ drag.mesh = 1 /\ drag.index = 0
    /\ Len(points[1]) = 1
    /\ points[1][1].coord = <<U(100), 0>>
    /\ points[1][1].toDelete

\* C28: in every reachable state selectedIndex is -1 or a valid index of both
\* point lists, also after a drag end has deleted the selected point and
\* after clear().
C28_SelectionValid ==
    \/ selectedIndex = 0 - 1
    \/ \A m \in Meshes : InRange(points[m], selectedIndex)

\* C29: every selection change (a click that adds a point, the start of a
\* drag) and every image change cancels a running animation: right after
\* the handler every animation that was running is cancelled and none is
\* running, and none runs until the next warp().
C29_SelectionCancels ==
    /\ [][\A m \in Meshes, coord \in ClickPos :
             ClickAdd(m, coord) =>
                /\ Running(anims') = {}
                /\ \A a \in Running(anims) : anims'[a].status = "cancelled"]_vars
    /\ [][\A m \in Meshes, index \in 0..(MaxPoints - 1) :
             DragStart(m, index) =>
                /\ Running(anims') = {}
                /\ \A a \in Running(anims) : anims'[a].status = "cancelled"]_vars
    /\ [][\A k \in Meshes, nat \in DropSizes :
             ImageChange(k, nat) =>
                /\ Running(anims') = {}
                /\ \A a \in Running(anims) : anims'[a].status = "cancelled"]_vars
    /\ [][(Running(anims) = {} /\ Running(anims') # {}) =>
             (last'.op = "warp" /\ morphAnim' # morphAnim)]_vars

\* an image has just been dropped and the only animation there has been is
\* cancelled; no point was ever selected, so it was running until a drop
\* cancelled it
C29_Witness ==
    /\ last.op = "imageChange"
    /\ selectedIndex = 0 - 1
    /\ morphAnim = 1 /\ Len(anims) = 1
    /\ anims[1].status = "cancelled"

\* C30: no frame is drawn while the effective point lists of the two meshes
\* have different lengths: whatever the order of drag starts, moves and
\* ends, warp() and animation steps, a step that draws never happens in a
\* state where a point of one mesh is marked for deletion.
C30_NoFrameWhileMarked ==
    [][(last'.op = "tick" /\ last'.effect = "draw") =>
          /\ \A m \in Meshes : Unmarked(points[m]) = 1..Len(points[m])
          /\ EffectiveCounts[1] = EffectiveCounts[2]]_vars

====
